---- MODULE Spec2Model ----
(***************************************************************************)
(* Model of the message service: the signed webhook ingestion pipeline     *)
(* (verify_signature -> parse/validate -> insert_message), the message     *)
(* store (a SQLite table keyed by message_id) and the query layer.         *)
(*                                                                         *)
(* A Python str is a sequence of Unicode code points; bytes built from it  *)
(* by UTF-8 keep the code-point order, which is the order SQLite's BINARY  *)
(* collation compares TEXT by.                                             *)
(***************************************************************************)
EXTENDS Integers, Sequences, FiniteSets, TLC

VARIABLES
    secret,                  \* settings.webhook_secret (read-only after startup)
    store,                   \* rows of table messages, in rowid (insertion) order
    clock,                   \* the server clock read by datetime.utcnow()
    reqs,                    \* in-flight and finished webhook requests
    webhook_requests_total,  \* Counter, label result
    http_requests_total,     \* Counter, labels (path, status)
    vcall,                   \* one call of verify_signature: arguments and result
    qcall,                   \* one call of get_messages: arguments and result
    mcall                    \* one construction of a WebhookMessage: data and result

\* The calls of single functions, which the request handlers leave alone.
calls == <<vcall, qcall, mcall>>

vars == <<secret, store, clock, reqs, webhook_requests_total, http_requests_total,
          vcall, qcall, mcall>>

(***************************************************************************)
(* Strings                                                                 *)
(***************************************************************************)

\* Code point of each character the model's inputs are written with.
Ord ==
    " " :> 32 @@
    "%" :> 37 @@
    "+" :> 43 @@
    "-" :> 45 @@
    "." :> 46 @@
    "0" :> 48 @@
    "1" :> 49 @@
    "2" :> 50 @@
    "3" :> 51 @@
    "4" :> 52 @@
    "5" :> 53 @@
    "6" :> 54 @@
    "7" :> 55 @@
    "8" :> 56 @@
    "9" :> 57 @@
    ":" :> 58 @@
    "H" :> 72 @@
    "T" :> 84 @@
    "Z" :> 90 @@
    "_" :> 95 @@
    "a" :> 97 @@
    "b" :> 98 @@
    "h" :> 104 @@
    "i" :> 105 @@
    "m" :> 109 @@
    "o" :> 111 @@
    "x" :> 120 @@
    "y" :> 121 @@
    "superscript2" :> 178 @@
    "e_acute" :> 233 @@
    "arabic_indic3" :> 1635

\* The str written with the characters cs.
Str(cs) == [i \in 1..Len(cs) |-> Ord[cs[i]]]

\* Optional[str]: None, or a str.
None == [tag |-> "none", s |-> <<>>, key |-> <<>>, body |-> 0]
Some(s) == [tag |-> "str", s |-> s, key |-> <<>>, body |-> 0]

\* The str that hexdigest() returns for HMAC-SHA256 of body number `body` under
\* `key`: 64 lower-case hex characters, a function of (key, body) without
\* collisions, kept symbolic.
HexDigest(key, body) == [tag |-> "mac", s |-> <<>>, key |-> key, body |-> body]

\* Python truthiness of an Optional[str]: None and "" are falsy.
\* `if v is not None:` in place of `if v:`.
TruthyNotNone(v) == v.tag # "none"

Truthy(v) == v.tag = "mac" \/ (v.tag = "str" /\ Len(v.s) > 0)

\* str.isascii(): a hex digest is ASCII.
IsAscii(v) == v.tag = "mac" \/ \A i \in 1..Len(v.s) : v.s[i] < 128

\* a < b for str, code point by code point (a proper prefix is smaller).
RECURSIVE StrLess(_, _)
StrLess(a, b) ==
    IF Len(b) = 0 THEN FALSE
    ELSE IF Len(a) = 0 THEN TRUE
    ELSE IF a[1] # b[1] THEN a[1] < b[1]
    ELSE StrLess(Tail(a), Tail(b))

StartsWith(v, p) == Len(v) >= Len(p) /\ SubSeq(v, 1, Len(p)) = p
EndsWith(v, p) == Len(v) >= Len(p) /\ SubSeq(v, Len(v) - Len(p) + 1, Len(v)) = p

(***************************************************************************)
(* Signature verification                                                  *)
(***************************************************************************)

\* hmac.new(key, body, hashlib.sha256).hexdigest()
HmacSha256Hex(key, body) == HexDigest(key, body)

\* hmac.compare_digest on two str: TypeError unless both are ASCII.
CompareDigest(a, b) ==
    IF ~IsAscii(a) \/ ~IsAscii(b) THEN "TypeError"
    ELSE IF a = b THEN "True" ELSE "False"

\* verify_signature with the secret check dropped (an empty or missing secret
\* keys the HMAC with the empty key).
VerifySignatureNoSecretCheck(body, signature_header, webhook_secret) ==
    IF ~Truthy(signature_header) THEN "False"
    ELSE CompareDigest(HmacSha256Hex(webhook_secret.s, body), signature_header)

\* verify_signature(body, signature_header), reading settings.webhook_secret.
\* "True" / "False" are its return values, "TypeError" the exception it lets out.
VerifySignature(body, signature_header, webhook_secret) ==
    IF ~Truthy(signature_header) THEN "False"
    ELSE IF ~Truthy(webhook_secret) THEN "False"
    ELSE CompareDigest(HmacSha256Hex(webhook_secret.s, body), signature_header)

(***************************************************************************)
(* Message validation (class WebhookMessage)                               *)
(***************************************************************************)

\* Field(None, max_length=4096)
MaxTextLength == 4096

\* A JSON value of an object's field: a string, null or a number.
JStr(s) == [t |-> "str", s |-> s]
JNull == [t |-> "null", s |-> <<>>]
JNum == [t |-> "num", s |-> <<>>]

IsAsciiDigit(c) == c \in 48..57

\* str.isdigit() per character: the Unicode digits, not only 0-9.
IsUnicodeDigit(c) == IsAsciiDigit(c) \/ c = 178 \/ c \in 1632..1641

\* str.isdigit(): non-empty and every character a digit.
IsDigitStr(s) == Len(s) > 0 /\ \A i \in 1..Len(s) : IsUnicodeDigit(s[i])

\* validate_msisdn: the messages of the ValueErrors it raises.
ValidateMsisdn(v) ==
    IF ~StartsWith(v, Str(<<"+">>)) THEN {"must start with +"}
    ELSE IF ~IsDigitStr(SubSeq(v, 2, Len(v))) THEN {"must contain only digits after +"}
    ELSE {}

\* v.replace("Z", "+00:00"): every Z is replaced.
RECURSIVE ReplaceZ(_)
ReplaceZ(v) ==
    IF Len(v) = 0 THEN <<>>
    ELSE (IF v[1] = 90 THEN Str(<<"+","0","0",":","0","0">>) ELSE <<v[1]>>) \o ReplaceZ(Tail(v))

AllAsciiDigits(s, from, to) == \A i \in from..to : IsAsciiDigit(s[i])
Num(s, from, to) ==
    LET RECURSIVE val(_)
        val(i) == IF i < from THEN 0 ELSE val(i - 1) * 10 + (s[i] - 48)
    IN val(to)

DaysInMonth(y, m) ==
    IF m \in {4, 6, 9, 11} THEN 30
    ELSE IF m = 2 THEN (IF (y % 4 = 0 /\ y % 100 # 0) \/ y % 400 = 0 THEN 29 ELSE 28)
    ELSE 31

\* The date part YYYY-MM-DD of an isoformat string (its first ten characters).
ParseIsoDate(s) ==
    /\ Len(s) >= 10
    /\ AllAsciiDigits(s, 1, 4) /\ s[5] = 45
    /\ AllAsciiDigits(s, 6, 7) /\ s[8] = 45
    /\ AllAsciiDigits(s, 9, 10)
    /\ Num(s, 1, 4) >= 1
    /\ Num(s, 6, 7) \in 1..12
    /\ Num(s, 9, 10) \in 1..DaysInMonth(Num(s, 1, 4), Num(s, 6, 7))

\* HH[:MM[:SS[.fff[fff]]]]
ParseHhMmSsFf(t) ==
    /\ Len(t) \in {2, 5, 8, 12, 15}
    /\ AllAsciiDigits(t, 1, 2) /\ Num(t, 1, 2) <= 23
    /\ Len(t) >= 5 => (t[3] = 58 /\ AllAsciiDigits(t, 4, 5) /\ Num(t, 4, 5) <= 59)
    /\ Len(t) >= 8 => (t[6] = 58 /\ AllAsciiDigits(t, 7, 8) /\ Num(t, 7, 8) <= 59)
    /\ Len(t) > 8 => (t[9] = 46 /\ AllAsciiDigits(t, 10, Len(t)))

\* The position of the first + or - in t, 0 when there is none.
TzSignPos(t) ==
    LET at == {i \in 1..Len(t) : t[i] \in {43, 45}}
    IN IF at = {} THEN 0 ELSE CHOOSE i \in at : \A j \in at : i <= j

\* datetime.fromisoformat(s) returns (TRUE) or raises ValueError (FALSE), for
\* the forms YYYY-MM-DD[*HH[:MM[:SS[.fff[fff]]]][+HH:MM[:SS[.ffffff]]]].
FromIsoformat(s) ==
    /\ ParseIsoDate(s)
    /\ \/ Len(s) = 10
       \/ /\ Len(s) >= 13
          /\ LET t == SubSeq(s, 12, Len(s))
                 p == TzSignPos(t)
             IN IF p = 0 THEN ParseHhMmSsFf(t)
                ELSE /\ p > 1
                     /\ ParseHhMmSsFf(SubSeq(t, 1, p - 1))
                     /\ ParseHhMmSsFf(SubSeq(t, p + 1, Len(t)))
                     /\ Len(t) - p \in {5, 8, 15}

\* validate_timestamp: the messages of the ValueErrors it raises.
ValidateTimestamp(v) ==
    IF ~EndsWith(v, Str(<<"Z">>)) THEN {"must end with Z"}
    ELSE IF ~FromIsoformat(ReplaceZ(v)) THEN {"must be valid ISO-8601 UTC timestamp"}
    ELSE {}

\* The errors pydantic reports for a required str field `k` of the object `d`.
RequiredStr(d, k) ==
    IF k \notin DOMAIN d THEN {"Field required"}
    ELSE IF d[k].t # "str" THEN {"Input should be a valid string"}
    ELSE {}

\* message_id: str = Field(..., min_length=1), no length check at all.
MessageIdErrorsNoMinLength(d) == RequiredStr(d, "message_id")

\* message_id: str = Field(..., min_length=1)
MessageIdErrors(d) ==
    IF RequiredStr(d, "message_id") # {} THEN RequiredStr(d, "message_id")
    ELSE IF Len(d["message_id"].s) < 1 THEN {"String should have at least 1 character"}
    ELSE {}

\* from_ / to: a required str, then validate_msisdn.
MsisdnErrors(d, k) ==
    IF RequiredStr(d, k) # {} THEN RequiredStr(d, k) ELSE ValidateMsisdn(d[k].s)

\* ts: a required str, then validate_timestamp.
TsErrors(d) ==
    IF RequiredStr(d, "ts") # {} THEN RequiredStr(d, "ts") ELSE ValidateTimestamp(d["ts"].s)

\* text with the bound exclusive: a text of exactly max_length is an error.
TextErrorsExclusive(d) ==
    IF "text" \notin DOMAIN d \/ d["text"].t = "null" THEN {}
    ELSE IF d["text"].t # "str" THEN {"Input should be a valid string"}
    ELSE IF Len(d["text"].s) >= MaxTextLength
         THEN {"String should have at most 4096 characters"}
    ELSE {}

\* text: Optional[str] = Field(None, max_length=4096)
TextErrors(d) ==
    IF "text" \notin DOMAIN d \/ d["text"].t = "null" THEN {}
    ELSE IF d["text"].t # "str" THEN {"Input should be a valid string"}
    ELSE IF Len(d["text"].s) > MaxTextLength
         THEN {"String should have at most 4096 characters"}
    ELSE {}

\* Every error WebhookMessage(**d) reports for the JSON object d, by field.
ValidationErrors(d) ==
    [message_id |-> MessageIdErrors(d),
     from |-> MsisdnErrors(d, "from"),
     to |-> MsisdnErrors(d, "to"),
     ts |-> TsErrors(d),
     text |-> TextErrors(d)]

IsValid(d) == \A k \in DOMAIN ValidationErrors(d) : ValidationErrors(d)[k] = {}

\* The placeholder held where no message was built.
NoMessage ==
    [message_id |-> <<>>, from_ |-> <<>>, to |-> <<>>, ts |-> <<>>, text |-> None]

\* The WebhookMessage instance built from a valid object d.
MessageOf(d) ==
    [message_id |-> d["message_id"].s,
     from_ |-> d["from"].s,
     to |-> d["to"].s,
     ts |-> d["ts"].s,
     text |-> IF "text" \in DOMAIN d /\ d["text"].t = "str"
              THEN Some(d["text"].s) ELSE None]

(***************************************************************************)
(* Request bodies                                                          *)
(***************************************************************************)

IdM1 == Str(<<"m","1">>)
IdM2 == Str(<<"m","2">>)
IdM3 == Str(<<"m","3">>)
PhoneA == Str(<<"+","1">>)
PhoneB == Str(<<"+","2">>)
Ts0900 == Str(<<"2","0","2","5","-","0","1","-","1","5","T","0","9",":","0","0",":","0","0","Z">>)
Ts1000 == Str(<<"2","0","2","5","-","0","1","-","1","5","T","1","0",":","0","0",":","0","0","Z">>)
TextHi == Str(<<"h","i">>)
TextYo == Str(<<"y","o">>)
Key1 == Str(<<"a","b">>)
Key2 == Str(<<"b","a">>)

\* A body of raw bytes: whether they decode as UTF-8, whether the text is
\* JSON, and the value json.loads returns for it.
Body(enc, syntax, value) == [enc |-> enc, syntax |-> syntax, value |-> value]
JObject(fields) == [t |-> "obj", fields |-> fields]
JList == [t |-> "list", fields |-> <<>>]
JsonBody(fields) == Body("utf8", "json", JObject(fields))

Fields(id, from, to, ts, text) ==
    [message_id |-> JStr(id), from |-> JStr(from), to |-> JStr(to),
     ts |-> JStr(ts), text |-> text]

Without(d, k) == [x \in DOMAIN d \ {k} |-> d[x]]

ValidFields == Fields(IdM1, PhoneA, PhoneB, Ts1000, JStr(TextHi))

Repeat(c, n) == [i \in 1..n |-> c]

\* The bodies requests are drawn from, by number.
BodyTable ==
    << Body("invalid", "none", JList),                               \* 1: not UTF-8
       Body("utf8", "invalid", JList),                               \* 2: not JSON
       Body("utf8", "json", JList),                                  \* 3: a JSON array
       JsonBody(ValidFields),                                        \* 4: m1
       JsonBody(Fields(IdM1, PhoneB, PhoneA, Ts0900, JStr(TextYo))), \* 5: m1 again, other fields
       JsonBody(Fields(IdM2, PhoneA, PhoneB, Ts1000, JNull)),        \* 6: m2, text null
       JsonBody(Without(ValidFields, "message_id")),                 \* 7
       JsonBody(Without(ValidFields, "from")),                       \* 8
       JsonBody(Without(ValidFields, "to")),                         \* 9
       JsonBody(Without(ValidFields, "ts")),                         \* 10
       JsonBody([ValidFields EXCEPT !["message_id"] = JStr(<<>>)]),  \* 11: empty message_id
       JsonBody([ValidFields EXCEPT !["from"] = JStr(Str(<<"1">>))]),       \* 12: from without +
       JsonBody([ValidFields EXCEPT !["to"] = JStr(Str(<<"+","1","a">>))]),       \* 13: to with a letter
       JsonBody([ValidFields EXCEPT !["ts"] = JStr(Str(<<"2","0","2","5","-","0","1","-","1","5","T","1","0",":","0","0",":","0","0">>))]),      \* 14: ts without Z
       JsonBody([ValidFields EXCEPT !["ts"] = JStr(Str(<<"2","0","2","5","-","0","1","-","1","5","T","1","0",":","0","0",":","0","0","+","0","5",":","3","0">>))]),      \* 15: ts with an offset
       JsonBody([ValidFields EXCEPT !["text"] =
                    JStr(Repeat(120, MaxTextLength + 1))]),          \* 16: text of 4097
       JsonBody([ValidFields EXCEPT !["from"] = JStr(Str(<<"+","arabic_indic3">>))]),   \* 17: + and a non-ASCII digit
       JsonBody([ValidFields EXCEPT !["from"] = JStr(Str(<<"+">>))]),    \* 18: a bare +
       JsonBody(Fields(IdM3, PhoneB, PhoneA, Ts0900, JStr(TextHi)))  \* 19: m3
    >>

Bodies == 1..Len(BodyTable)

(***************************************************************************)
(* The try block of the webhook handler                                    *)
(***************************************************************************)

\* body_bytes.decode('utf-8'), json.loads and WebhookMessage(**data): the
\* exception raised ("none" when a message was built), whether the local
\* variable `data` was assigned before it, and the message.
ParseAndValidate(body) ==
    LET b == BodyTable[body] IN
    IF b.enc # "utf8"
    THEN [exc |-> "UnicodeDecodeError", data_bound |-> FALSE, message |-> NoMessage]
    ELSE IF b.syntax # "json"
    THEN [exc |-> "JSONDecodeError", data_bound |-> FALSE, message |-> NoMessage]
    ELSE IF b.value.t # "obj"
    THEN [exc |-> "TypeError", data_bound |-> TRUE, message |-> NoMessage]
    ELSE IF ~IsValid(b.value.fields)
    THEN [exc |-> "ValidationError", data_bound |-> TRUE, message |-> NoMessage]
    ELSE [exc |-> "none", data_bound |-> TRUE, message |-> MessageOf(b.value.fields)]

(***************************************************************************)
(* Storage (table messages, message_id TEXT PRIMARY KEY)                   *)
(***************************************************************************)

Row(message, created_at) ==
    [message_id |-> message.message_id,
     from_msisdn |-> message.from_,
     to_msisdn |-> message.to,
     ts |-> message.ts,
     text |-> message.text,
     created_at |-> created_at]

HasRow(rows, message_id) == \E i \in 1..Len(rows) : rows[i].message_id = message_id

\* insert_message on a table without the PRIMARY KEY constraint.
InsertMessageNoConstraint(rows, message, now) ==
    [store |-> Append(rows, Row(message, now)), is_new |-> TRUE, result |-> "created"]

\* insert_message written as INSERT OR REPLACE: the new row takes the place of
\* the old one.
InsertMessageOrReplace(rows, message, now) ==
    [store |-> SelectSeq(rows, LAMBDA x : x.message_id # message.message_id)
                  \o <<Row(message, now)>>,
     is_new |-> TRUE, result |-> "created"]

\* insert_message: the INSERT and its commit are one transaction of the
\* database; a row with the same message_id makes it raise IntegrityError,
\* which is reported as a duplicate.
InsertMessage(rows, message, now) ==
    IF HasRow(rows, message.message_id)
    THEN [store |-> rows, is_new |-> FALSE, result |-> "duplicate"]
    ELSE [store |-> Append(rows, Row(message, now)), is_new |-> TRUE, result |-> "created"]

(***************************************************************************)
(* Storage reads                                                           *)
(***************************************************************************)

\* ORDER BY ts ASC only: rows of equal ts stay in rowid order.
RowLessTsOnly(a, b) == StrLess(a.ts, b.ts)

\* ORDER BY ts ASC, message_id ASC (BINARY collation).
RowLess(a, b) ==
    StrLess(a.ts, b.ts) \/ (a.ts = b.ts /\ StrLess(a.message_id, b.message_id))

\* x put into the sorted rows, after the rows that are not greater.
InsertSorted(sorted, x) ==
    LET k == Cardinality({i \in 1..Len(sorted) : ~RowLess(x, sorted[i])})
    IN SubSeq(sorted, 1, k) \o <<x>> \o SubSeq(sorted, k + 1, Len(sorted))

RECURSIVE SortRows(_)
SortRows(rows) ==
    IF Len(rows) = 0 THEN <<>>
    ELSE InsertSorted(SortRows(SubSeq(rows, 1, Len(rows) - 1)), rows[Len(rows)])

\* SQLite's LIKE folds the case of the ASCII letters only.
FoldCase(c) == IF c \in 65..90 THEN c + 32 ELSE c

\* text LIKE pattern: % matches any run of characters, _ any one character.
RECURSIVE LikeMatch(_, _)
LikeMatch(p, s) ==
    IF Len(p) = 0 THEN Len(s) = 0
    ELSE IF p[1] = 37 THEN LikeMatch(Tail(p), s) \/ (Len(s) > 0 /\ LikeMatch(p, Tail(s)))
    ELSE IF Len(s) = 0 THEN FALSE
    ELSE IF p[1] = 95 THEN LikeMatch(Tail(p), Tail(s))
    ELSE FoldCase(p[1]) = FoldCase(s[1]) /\ LikeMatch(Tail(p), Tail(s))

\* A WHERE clause that joins the conditions with OR.
MatchesAny(row, from_msisdn, since, q) ==
    \/ ~(Truthy(from_msisdn) \/ Truthy(since) \/ Truthy(q))
    \/ (Truthy(from_msisdn) /\ row.from_msisdn = from_msisdn.s)
    \/ (Truthy(since) /\ ~StrLess(row.ts, since.s))
    \/ (Truthy(q) /\ row.text.tag = "str" /\ LikeMatch(<<37>> \o q.s \o <<37>>, row.text.s))

\* The WHERE clause get_messages builds: a condition for each truthy filter.
Matches(row, from_msisdn, since, q) ==
    /\ Truthy(from_msisdn) => row.from_msisdn = from_msisdn.s
    /\ Truthy(since) => ~StrLess(row.ts, since.s)
    /\ Truthy(q) => (row.text.tag = "str" /\ LikeMatch(<<37>> \o q.s \o <<37>>, row.text.s))

RECURSIVE SelectRows(_, _, _, _)
SelectRows(rows, from_msisdn, since, q) ==
    IF Len(rows) = 0 THEN <<>>
    ELSE (IF Matches(rows[1], from_msisdn, since, q) THEN <<rows[1]>> ELSE <<>>)
            \o SelectRows(Tail(rows), from_msisdn, since, q)

\* The dict get_messages builds of a row.
Projection(row) ==
    [message_id |-> row.message_id, from |-> row.from_msisdn, to |-> row.to_msisdn,
     ts |-> row.ts, text |-> row.text]

Min(a, b) == IF a < b THEN a ELSE b

\* LIMIT ? OFFSET ? with limit + 1 bound to the LIMIT: a page runs one row
\* into the next.
PageOverlapping(sorted, limit, offset) ==
    LET page == SubSeq(sorted, offset + 1, Min(offset + limit + 1, Len(sorted)))
    IN [k \in 1..Len(page) |-> Projection(page[k])]

\* LIMIT ? OFFSET ? with the two parameters bound in the wrong order.
PageSwapped(sorted, limit, offset) ==
    LET page == SubSeq(sorted, limit + 1, Min(limit + offset, Len(sorted)))
    IN [i \in 1..Len(page) |-> Projection(page[i])]

\* LIMIT ? OFFSET ? of the ordered rows.
Page(sorted, limit, offset) ==
    LET page == SubSeq(sorted, offset + 1, Min(offset + limit, Len(sorted)))
    IN [i \in 1..Len(page) |-> Projection(page[i])]

\* SELECT COUNT(*) as total FROM messages WHERE ...
CountMessages(rows, from_msisdn, since, q) == Len(SelectRows(rows, from_msisdn, since, q))

\* SELECT ... FROM messages WHERE ... ORDER BY ts ASC, message_id ASC
\* LIMIT ? OFFSET ?, and the list of dicts built of its rows.
SelectMessages(rows, limit, offset, from_msisdn, since, q) ==
    Page(SortRows(SelectRows(rows, from_msisdn, since, q)), limit, offset)

\* get_messages on a table that no other connection writes to between its
\* two statements: (messages, total).
GetMessages(rows, limit, offset, from_msisdn, since, q) ==
    [messages |-> SelectMessages(rows, limit, offset, from_msisdn, since, q),
     total |-> CountMessages(rows, from_msisdn, since, q)]

\* LIMIT 10 of the messages-per-sender query
TopSenders == 10

Senders(rows) == {rows[i].from_msisdn : i \in 1..Len(rows)}

\* COUNT(DISTINCT to_msisdn) in place of COUNT(*).
CountFromDistinctTo(rows, sender) ==
    Cardinality({rows[i].to_msisdn : i \in {j \in 1..Len(rows) : rows[j].from_msisdn = sender}})

\* COUNT(*) of the group of a sender.
CountFrom(rows, sender) == Cardinality({i \in 1..Len(rows) : rows[i].from_msisdn = sender})

\* The groups that LIMIT k may keep of the groups ordered by count DESC: k of
\* them (all, when there are fewer), none with a smaller count than a group
\* left out. SQL leaves open which of the groups of equal count come first,
\* so any of those tied for the last places may take them.
TopSets(cnt, k) ==
    LET senders == DOMAIN cnt
        n == Min(k, Cardinality(senders))
        atLeast(c) == {s \in senders : cnt[s] >= c}
        enough == {cnt[s] : s \in {x \in senders : Cardinality(atLeast(cnt[x])) >= n}}
    IN IF n = 0 THEN {{}}
       ELSE LET last == CHOOSE c \in enough : \A d \in enough : d <= c
                sure == {s \in senders : cnt[s] > last}
                tied == {s \in senders : cnt[s] = last}
            IN {sure \cup pick :
                   pick \in {p \in SUBSET tied : Cardinality(p) = n - Cardinality(sure)}}

\* ORDER BY count ASC: the groups of `kept` by ascending count.
RECURSIVE OrderByCountAscending(_, _, _)
OrderByCountAscending(cnt, kept, ties) ==
    IF kept = {} THEN <<>>
    ELSE LET low == {s \in kept : \A o \in kept : cnt[s] <= cnt[o]}
             first == CHOOSE s \in low :
                         \A o \in low \ {s} :
                            IF ties = "ascending" THEN StrLess(s, o) ELSE StrLess(o, s)
         IN <<[from |-> first, count |-> cnt[first]]>>
               \o OrderByCountAscending(cnt, kept \ {first}, ties)

\* ORDER BY count DESC: the groups of `kept` by descending count, those of
\* equal count in ascending or in descending order of from_msisdn.
RECURSIVE OrderByCount(_, _, _)
OrderByCount(cnt, kept, ties) ==
    IF kept = {} THEN <<>>
    ELSE LET top == {s \in kept : \A o \in kept : cnt[o] <= cnt[s]}
             first == CHOOSE s \in top :
                         \A o \in top \ {s} :
                            IF ties = "ascending" THEN StrLess(s, o) ELSE StrLess(o, s)
         IN <<[from |-> first, count |-> cnt[first]]>> \o OrderByCount(cnt, kept \ {first}, ties)

\* The orders the sort leaves groups of equal count in.
TieOrders == {"ascending", "descending"}

\* GROUP BY from_msisdn ORDER BY count DESC LIMIT k: the results the query
\* may give.
PerSender(rows, senders, k) ==
    LET cnt == [s \in senders |-> CountFrom(rows, s)]
    IN {OrderByCount(cnt, kept, ties) : kept \in TopSets(cnt, k), ties \in TieOrders}

\* SELECT ts ... LIMIT 1 in place of MIN(ts): the ts of the first row.
MinTsFirstRow(rows) == IF Len(rows) = 0 THEN None ELSE Some(rows[1].ts)

\* MIN(ts) / MAX(ts): NULL on an empty table.
MinTs(rows) ==
    IF Len(rows) = 0 THEN None
    ELSE Some(CHOOSE t \in {rows[i].ts : i \in 1..Len(rows)} :
                 \A i \in 1..Len(rows) : ~StrLess(rows[i].ts, t))
MaxTs(rows) ==
    IF Len(rows) = 0 THEN None
    ELSE Some(CHOOSE t \in {rows[i].ts : i \in 1..Len(rows)} :
                 \A i \in 1..Len(rows) : ~StrLess(t, rows[i].ts))

\* get_stats on a table that no other connection writes to between its four
\* statements: every dict it may return.
GetStats(rows) ==
    {[total_messages |-> Len(rows),
      senders_count |-> Cardinality(Senders(rows)),
      messages_per_sender |-> mps,
      first_message_ts |-> MinTs(rows),
      last_message_ts |-> MaxTs(rows)] : mps \in PerSender(rows, Senders(rows), TopSenders)}

(***************************************************************************)
(* Metrics                                                                 *)
(***************************************************************************)

Results == {"invalid_signature", "validation_error", "created", "duplicate"}
Paths == {"/webhook", "/messages", "/stats"}
Statuses == {200, 401, 422}

Inc(counter, label) == [counter EXCEPT ![label] = @ + 1]

\* LoggingMiddleware.dispatch after call_next returned a response: an
\* exception out of the handler passes through it and counts nothing.
Middleware(counter, path, status) ==
    IF status \in Statuses THEN Inc(counter, <<path, status>>) ELSE counter

(***************************************************************************)
(* Requests                                                                *)
(***************************************************************************)

\* Requests served by one run of the model.
MaxRequests == 2

Requests == 1..MaxRequests

\* limit: int = Query(50, ge=1, le=100) and offset: int = Query(0, ge=0)
DefaultLimit == 50
MinLimit == 1
MaxLimit == 100
DefaultOffset == 0
MinOffset == 0

\* An integer query parameter of a request: absent, or the value sent.
Absent == [given |-> FALSE, value |-> 0]
Given(n) == [given |-> TRUE, value |-> n]

\* limit with its bounds ignored: an out-of-range value is moved to the
\* nearest bound and the request goes on.
LimitParamClamped(p) ==
    IF ~p.given THEN [ok |-> TRUE, value |-> DefaultLimit]
    ELSE IF p.value < MinLimit THEN [ok |-> TRUE, value |-> MinLimit]
    ELSE IF p.value > MaxLimit THEN [ok |-> TRUE, value |-> MaxLimit]
    ELSE [ok |-> TRUE, value |-> p.value]

\* What the framework makes of the parameter limit before list_messages is
\* called: the default, the value, or a validation error.
LimitParam(p) ==
    IF ~p.given THEN [ok |-> TRUE, value |-> DefaultLimit]
    ELSE IF p.value < MinLimit \/ p.value > MaxLimit THEN [ok |-> FALSE, value |-> p.value]
    ELSE [ok |-> TRUE, value |-> p.value]

\* The same for offset, which has a lower bound only.
OffsetParam(p) ==
    IF ~p.given THEN [ok |-> TRUE, value |-> DefaultOffset]
    ELSE IF p.value < MinOffset THEN [ok |-> FALSE, value |-> p.value]
    ELSE [ok |-> TRUE, value |-> p.value]

\* The (limit, offset) parameters of the /messages requests: omitted, inside
\* and outside their ranges.
MessagesInputs ==
    {<<Absent, Absent>>, <<Given(MinLimit), Given(1)>>, <<Given(MaxLimit), Given(MinOffset)>>,
     <<Given(MinLimit - 1), Absent>>, <<Given(MaxLimit + 1), Absent>>,
     <<Absent, Given(MinOffset - 1)>>}

\* The arguments of a get_messages call that was not made.
NoWindow == [limit |-> -1, offset |-> -1]

NoStats ==
    [total_messages |-> 0, senders_count |-> 0, messages_per_sender |-> <<>>,
     first_message_ts |-> None, last_message_ts |-> None]

\* A request: where its handler stands (pc), what the client sent (body and
\* X-Signature of a webhook), the stages the handler went through, the
\* created_at its insert_message call computed, and the response: status,
\* detail or status text, and the payload. Of a /messages request: the limit
\* and offset the client sent (given), those get_messages was called with
\* (applied) and those of the response.
Idle ==
    [kind |-> "none", pc |-> "idle", body |-> 0, sig |-> None, steps |-> <<>>,
     status |-> 0, detail |-> "", result |-> "", message |-> NoMessage,
     created_at |-> -1, data |-> <<>>, total |-> 0, stats |-> NoStats,
     given |-> [limit |-> Absent, offset |-> Absent], applied |-> NoWindow,
     limit |-> -1, offset |-> -1]

\* What a client holding Key1 sends as X-Signature for a body.
Signed(body) == HexDigest(Key1, body)

NotAscii == Some(Str(<<"e_acute">>))
Wrong123 == Some(Str(<<"1", "2", "3">>))

\* The (body, X-Signature) pairs of the requests: bodies of every kind signed
\* with Key1, and bodies with no header, a wrong one and a non-ASCII one.
WebhookInputs ==
    {<<b, Signed(b)>> : b \in {1, 2, 3, 4, 5, 6, 11, 14, 17}}
        \cup {<<4, None>>, <<4, Wrong123>>, <<4, NotAscii>>, <<2, Wrong123>>, <<11, NotAscii>>}

\* Requests are numbered in the order they arrive.
Arrives(r) == reqs[r].pc = "idle" /\ (r > 1 => reqs[r - 1].pc # "idle")

\* A webhook request arrives: body_bytes = await request.body().
Receive(r) ==
    /\ Arrives(r)
    /\ \E in \in WebhookInputs :
          reqs' = [reqs EXCEPT ![r] = [@ EXCEPT !.kind = "webhook", !.pc = "received",
                                                !.body = in[1], !.sig = in[2]]]
    /\ UNCHANGED <<secret, store, clock, webhook_requests_total, http_requests_total, calls>>

\* if not verify_signature(body_bytes, x_signature): ... raise HTTPException(401)
Verify(r) ==
    /\ reqs[r].pc = "received"
    /\ LET v == VerifySignature(reqs[r].body, reqs[r].sig, secret)
           q == [reqs[r] EXCEPT !.steps = Append(@, "verify")] IN
       CASE v = "True" ->
              /\ reqs' = [reqs EXCEPT ![r] = [q EXCEPT !.pc = "verified"]]
              /\ UNCHANGED <<webhook_requests_total, http_requests_total>>
         [] v = "False" ->
              /\ reqs' = [reqs EXCEPT ![r] = [q EXCEPT !.pc = "done", !.status = 401,
                                                !.detail = "invalid signature",
                                                !.result = "invalid_signature"]]
              /\ webhook_requests_total' = Inc(webhook_requests_total, "invalid_signature")
              /\ http_requests_total' =
                    Middleware(Inc(http_requests_total, <<"/webhook", 401>>), "/webhook", 401)
         [] OTHER ->
              /\ reqs' = [reqs EXCEPT ![r] = [q EXCEPT !.pc = "done", !.status = 500,
                                                !.detail = "Internal Server Error",
                                                !.result = v]]
              /\ UNCHANGED <<webhook_requests_total, http_requests_total>>
    /\ UNCHANGED <<secret, store, clock, calls>>

\* str(e) of the exception the try block caught: the text the exception
\* renders itself as (for a ValidationError the count of errors, the name of
\* the model class, each field with its message, the input value and its
\* type; for the TypeError of `**` on a list the qualified name of the class).
ExceptionText(exc) ==
    CASE exc = "ValidationError" -> "str(ValidationError)"
      [] exc = "TypeError" -> "str(TypeError)"
      [] OTHER -> "str(Exception)"

\* The try block and its except branch: a message, or HTTPException(422) with
\* detail str(e); the except branch reads `data`, which is unassigned when
\* decode or json.loads raised.
Parse(r) ==
    /\ reqs[r].pc = "verified"
    /\ LET p == ParseAndValidate(reqs[r].body)
           q == [reqs[r] EXCEPT !.steps = Append(@, "parse")] IN
       CASE p.exc = "none" ->
              /\ reqs' = [reqs EXCEPT ![r] = [q EXCEPT !.pc = "validated",
                                                !.message = p.message]]
              /\ UNCHANGED <<webhook_requests_total, http_requests_total>>
         [] p.exc # "none" /\ p.data_bound ->
              /\ reqs' = [reqs EXCEPT ![r] = [q EXCEPT !.pc = "done", !.status = 422,
                                                !.detail = ExceptionText(p.exc),
                                                !.result = "validation_error"]]
              /\ webhook_requests_total' = Inc(webhook_requests_total, "validation_error")
              /\ http_requests_total' =
                    Middleware(Inc(http_requests_total, <<"/webhook", 422>>), "/webhook", 422)
         [] OTHER ->
              /\ reqs' = [reqs EXCEPT ![r] = [q EXCEPT !.pc = "done", !.status = 500,
                                                !.detail = "Internal Server Error",
                                                !.result = "UnboundLocalError"]]
              /\ UNCHANGED <<webhook_requests_total, http_requests_total>>
    /\ UNCHANGED <<secret, store, clock, calls>>

\* A handler that tells the caller of a duplicate.
AcceptedOrConflict(result) ==
    IF result = "duplicate" THEN [status |-> 409, detail |-> "duplicate"]
    ELSE [status |-> 200, detail |-> "ok"]

\* The response of the handler's last lines: return {"status": "ok"}.
Accepted(result) == [status |-> 200, detail |-> "ok"]

\* insert_message(...), the metrics and the response.
Persist(r) ==
    /\ reqs[r].pc = "validated"
    /\ LET ins == InsertMessage(store, reqs[r].message, clock)
           out == Accepted(ins.result) IN
       /\ store' = ins.store
       /\ reqs' = [reqs EXCEPT ![r] = [@ EXCEPT !.pc = "done", !.status = out.status,
                                                !.steps = Append(@, "insert"),
                                                !.created_at = clock,
                                                !.detail = out.detail,
                                                !.result = ins.result]]
       /\ webhook_requests_total' = Inc(webhook_requests_total, ins.result)
       /\ http_requests_total' =
             Middleware(Inc(http_requests_total, <<"/webhook", out.status>>),
                        "/webhook", out.status)
    /\ clock' = clock + 1
    /\ UNCHANGED <<secret, calls>>

\* GET /messages: the framework validates limit and offset and answers 422
\* itself when one is out of range; otherwise list_messages calls
\* get_messages with them, which opens a connection and runs its first
\* statement, the COUNT. The connection is in autocommit mode for SELECTs, so
\* each statement reads the table as it is when that statement runs.
ListMessages(r) ==
    /\ Arrives(r)
    /\ \E in \in MessagesInputs :
          LET limit == LimitParam(in[1])
              offset == OffsetParam(in[2])
              q == [reqs[r] EXCEPT !.kind = "messages",
                                   !.given = [limit |-> in[1], offset |-> in[2]]]
          IN IF limit.ok /\ offset.ok
             THEN /\ reqs' = [reqs EXCEPT ![r] =
                                 [q EXCEPT !.pc = "counted", !.steps = <<"get_messages">>,
                                           !.applied = [limit |-> limit.value,
                                                        offset |-> offset.value],
                                           !.total = CountMessages(store, None, None, None)]]
                  /\ UNCHANGED http_requests_total
             ELSE /\ reqs' = [reqs EXCEPT ![r] =
                                 [q EXCEPT !.pc = "done", !.status = 422,
                                           !.detail = "validation error"]]
                  /\ http_requests_total' = Middleware(http_requests_total, "/messages", 422)
    /\ UNCHANGED <<secret, store, clock, webhook_requests_total, calls>>

\* The second statement of get_messages, the SELECT of the page, and the
\* response list_messages builds of the two results.
ListMessagesSelect(r) ==
    /\ reqs[r].kind = "messages" /\ reqs[r].pc = "counted"
    /\ reqs' = [reqs EXCEPT ![r] =
                   [@ EXCEPT !.pc = "done", !.status = 200,
                             !.data = SelectMessages(store, reqs[r].applied.limit,
                                                     reqs[r].applied.offset, None, None, None),
                             !.limit = reqs[r].applied.limit,
                             !.offset = reqs[r].applied.offset]]
    /\ http_requests_total' = Middleware(http_requests_total, "/messages", 200)
    /\ UNCHANGED <<secret, store, clock, webhook_requests_total, calls>>

\* GET /stats: stats calls get_stats, which opens a connection and runs its
\* first statement, SELECT COUNT(*).
Stats(r) ==
    /\ Arrives(r)
    /\ reqs' = [reqs EXCEPT ![r] = [@ EXCEPT !.kind = "stats", !.pc = "senders_count",
                                             !.stats.total_messages = Len(store)]]
    /\ UNCHANGED <<secret, store, clock, webhook_requests_total, http_requests_total, calls>>

\* SELECT COUNT(DISTINCT from_msisdn)
StatsSendersCount(r) ==
    /\ reqs[r].kind = "stats" /\ reqs[r].pc = "senders_count"
    /\ reqs' = [reqs EXCEPT ![r] = [@ EXCEPT !.pc = "messages_per_sender",
                                             !.stats.senders_count =
                                                 Cardinality(Senders(store))]]
    /\ UNCHANGED <<secret, store, clock, webhook_requests_total, http_requests_total, calls>>

\* SELECT from_msisdn, COUNT(*) ... GROUP BY ... ORDER BY count DESC LIMIT 10
StatsMessagesPerSender(r) ==
    /\ reqs[r].kind = "stats" /\ reqs[r].pc = "messages_per_sender"
    /\ \E mps \in PerSender(store, Senders(store), TopSenders) :
          reqs' = [reqs EXCEPT ![r] = [@ EXCEPT !.pc = "first_last",
                                                !.stats.messages_per_sender = mps]]
    /\ UNCHANGED <<secret, store, clock, webhook_requests_total, http_requests_total, calls>>

\* SELECT MIN(ts), MAX(ts), and the response.
StatsFirstLast(r) ==
    /\ reqs[r].kind = "stats" /\ reqs[r].pc = "first_last"
    /\ reqs' = [reqs EXCEPT ![r] = [@ EXCEPT !.pc = "done", !.status = 200,
                                             !.stats.first_message_ts = MinTs(store),
                                             !.stats.last_message_ts = MaxTs(store)]]
    /\ http_requests_total' = Middleware(http_requests_total, "/stats", 200)
    /\ UNCHANGED <<secret, store, clock, webhook_requests_total, calls>>

NoVerifyCall == [body |-> 0, header |-> None, result |-> "none"]
NoErrors == [message_id |-> {}, from |-> {}, to |-> {}, ts |-> {}, text |-> {}]
NoModelCall == [data |-> <<>>, result |-> "none", errors |-> NoErrors]
NoQueryCall ==
    [pc |-> "none", limit |-> 0, offset |-> 0, from_msisdn |-> None, since |-> None,
     q |-> None, messages |-> <<>>, total |-> 0]

\* The state after startup: the table exists and is empty, the counters are
\* zero, the secret is whatever the environment configured.
Init ==
    /\ secret \in {Some(Key1), None}
    /\ store = <<>>
    /\ clock = 0
    /\ reqs = [r \in Requests |-> Idle]
    /\ webhook_requests_total = [l \in Results |-> 0]
    /\ http_requests_total = [l \in Paths \X Statuses |-> 0]
    /\ vcall = NoVerifyCall
    /\ qcall = NoQueryCall
    /\ mcall = NoModelCall

Next ==
    \E r \in Requests :
        \/ Receive(r) \/ Verify(r) \/ Parse(r) \/ Persist(r)
        \/ ListMessages(r) \/ ListMessagesSelect(r)
        \/ Stats(r) \/ StatsSendersCount(r) \/ StatsMessagesPerSender(r) \/ StatsFirstLast(r)

Spec == Init /\ [][Next]_vars

(***************************************************************************)
(* verify_signature alone: one call on arguments of every kind             *)
(***************************************************************************)

VerifySecrets == {None, Some(<<>>), Some(Key1), Some(Key2)}
VerifyBodies == {1, 2, 4, 5}
VerifyHeaders ==
    {None, Some(<<>>), Wrong123, NotAscii}
        \cup {HexDigest(k, b) : k \in {<<>>, Key1, Key2}, b \in VerifyBodies}

InitVerify ==
    /\ secret \in VerifySecrets
    /\ store = <<>>
    /\ clock = 0
    /\ reqs = [r \in Requests |-> Idle]
    /\ webhook_requests_total = [l \in Results |-> 0]
    /\ http_requests_total = [l \in Paths \X Statuses |-> 0]
    /\ vcall \in [body : VerifyBodies, header : VerifyHeaders, result : {"pending"}]
    /\ qcall = NoQueryCall
    /\ mcall = NoModelCall

VerifyCall ==
    /\ vcall.result = "pending"
    /\ vcall' = [vcall EXCEPT !.result = VerifySignature(vcall.body, vcall.header, secret)]
    /\ UNCHANGED <<secret, store, clock, reqs, webhook_requests_total,
                   http_requests_total, qcall, mcall>>

NextVerify == VerifyCall

SpecVerify == InitVerify /\ [][NextVerify]_vars

(***************************************************************************)
(* get_messages alone: one call on a table built by insert_message         *)
(***************************************************************************)

\* Rows of the tables get_messages is called on.
MaxRows == 3

IdM10 == Str(<<"m","1","0">>)

QueryMessages ==
    {[message_id |-> id, from_ |-> PhoneA, to |-> PhoneB, ts |-> ts, text |-> Some(TextHi)] :
        id \in {IdM1, IdM2, IdM3, IdM10}, ts \in {Ts0900, Ts1000}}

\* The table after insert_message was called on each message of msgs, in
\* order, the k-th call at time k.
RECURSIVE BuildStore(_)
BuildStore(msgs) ==
    IF Len(msgs) = 0 THEN <<>>
    ELSE InsertMessage(BuildStore(SubSeq(msgs, 1, Len(msgs) - 1)),
                       msgs[Len(msgs)], Len(msgs)).store

\* The limits of the calls: each at least the number of rows.
QueryLimits == {MaxRows + 1, DefaultLimit, MaxLimit}

InitQuery ==
    /\ secret = Some(Key1)
    /\ \E n \in 0..MaxRows : \E msgs \in [1..n -> QueryMessages] :
          /\ store = BuildStore(msgs)
          /\ clock = n + 1
    /\ reqs = [r \in Requests |-> Idle]
    /\ webhook_requests_total = [l \in Results |-> 0]
    /\ http_requests_total = [l \in Paths \X Statuses |-> 0]
    /\ vcall = NoVerifyCall
    /\ qcall \in [pc : {"pending"}, limit : QueryLimits, offset : {0},
                  from_msisdn : {None}, since : {None}, q : {None},
                  messages : {<<>>}, total : {0}]
    /\ mcall = NoModelCall

GetMessagesCall ==
    /\ qcall.pc = "pending"
    /\ LET got == GetMessages(store, qcall.limit, qcall.offset, qcall.from_msisdn,
                              qcall.since, qcall.q) IN
       qcall' = [qcall EXCEPT !.pc = "done", !.messages = got.messages,
                              !.total = got.total]
    /\ UNCHANGED <<secret, store, clock, reqs, webhook_requests_total,
                   http_requests_total, vcall, mcall>>

NextQuery == GetMessagesCall

SpecQuery == InitQuery /\ [][NextQuery]_vars

(***************************************************************************)
(* get_messages with filters and windows: one call on a table of messages  *)
(* of several senders, timestamps and texts                                *)
(***************************************************************************)

TextUpperHi == Str(<<"H","i">>)
TextOhio == Str(<<"o","h","i","o">>)

\* The messages of the filtered tables: two senders, two timestamps, texts
\* that hold "hi" in either case or not at all, and a message without text.
FilterMessages ==
    {[message_id |-> IdM1, from_ |-> PhoneA, to |-> PhoneB, ts |-> Ts1000,
      text |-> Some(TextHi)],
     [message_id |-> IdM2, from_ |-> PhoneB, to |-> PhoneA, ts |-> Ts1000,
      text |-> Some(TextUpperHi)],
     [message_id |-> IdM3, from_ |-> PhoneA, to |-> PhoneB, ts |-> Ts0900,
      text |-> Some(TextOhio)],
     [message_id |-> IdM10, from_ |-> PhoneA, to |-> PhoneB, ts |-> Ts1000,
      text |-> None]}

\* The values of the parameters from, since and q: left out, given, and
\* given as the empty string.
FilterFroms == {None, Some(PhoneA), Some(<<>>)}
FilterSinces == {None, Some(Ts1000), Some(<<>>)}
FilterQs == {None, Some(TextHi), Some(Str(<<"%">>)), Some(Str(<<"y","o">>)), Some(<<>>)}

\* The (limit, offset) pairs of the calls: windows inside, across and past
\* the end of the matching rows.
QueryWindows ==
    {<<1, 0>>, <<1, 1>>, <<2, 1>>, <<2, 2>>, <<2, MaxRows>>, <<MaxRows, 1>>,
     <<MaxRows + 1, 0>>, <<DefaultLimit, DefaultOffset>>, <<MaxLimit, MaxRows + 1>>}

InitFilter ==
    /\ secret = Some(Key1)
    /\ \E n \in 0..MaxRows : \E msgs \in [1..n -> FilterMessages] :
          /\ \A i, j \in 1..n : msgs[i] = msgs[j] => i = j
          /\ store = BuildStore(msgs)
          /\ clock = n + 1
    /\ reqs = [r \in Requests |-> Idle]
    /\ webhook_requests_total = [l \in Results |-> 0]
    /\ http_requests_total = [l \in Paths \X Statuses |-> 0]
    /\ vcall = NoVerifyCall
    /\ \E w \in QueryWindows, f \in FilterFroms, s \in FilterSinces, q \in FilterQs :
          qcall = [pc |-> "pending", limit |-> w[1], offset |-> w[2],
                   from_msisdn |-> f, since |-> s, q |-> q,
                   messages |-> <<>>, total |-> 0]
    /\ mcall = NoModelCall

NextFilter == GetMessagesCall

SpecFilter == InitFilter /\ [][NextFilter]_vars

(***************************************************************************)
(* get_stats alone: one /stats request on a table of many senders          *)
(***************************************************************************)

\* Senders of the tables the stats are computed on: one more than the LIMIT
\* of the messages-per-sender query.
MaxSenders == 11

\* str(n) for n >= 0.
RECURSIVE NumStr(_)
NumStr(n) == IF n < 10 THEN <<48 + n>> ELSE NumStr(n \div 10) \o <<48 + (n % 10)>>

\* The message inserted k-th, sent by sender number i: timestamps alternate,
\* the later one first.
StatsMessage(k, i) ==
    [message_id |-> Str(<<"m">>) \o NumStr(k),
     from_ |-> Str(<<"+">>) \o NumStr(i),
     to |-> PhoneB,
     ts |-> IF k % 2 = 1 THEN Ts1000 ELSE Ts0900,
     text |-> Some(TextHi)]

\* The senders' numbers, sender by sender, of the messages of a table in
\* which sender i has count[i] messages.
RECURSIVE SendersOf(_, _)
SendersOf(count, n) ==
    IF n = 0 THEN <<>> ELSE SendersOf(count, n - 1) \o [j \in 1..count[n] |-> n]

\* How many messages each of n senders sent: one each; one each but two of
\* sender h; one, two or three by turns, the senders with more first or last.
StatsCounts ==
    UNION {{[i \in 1..n |-> 1], [i \in 1..n |-> 1 + (i % 3)], [i \in 1..n |-> 3 - (i % 3)]}
              \cup {[i \in 1..n |-> IF i = h THEN 2 ELSE 1] : h \in 1..n}
           : n \in 0..MaxSenders}

InitStats ==
    /\ secret = Some(Key1)
    /\ \E count \in StatsCounts :
          LET from == SendersOf(count, Len(count))
              msgs == [k \in 1..Len(from) |-> StatsMessage(k, from[k])]
          IN /\ store = BuildStore(msgs)
             /\ clock = Len(msgs) + 1
    /\ reqs = [r \in Requests |-> Idle]
    /\ webhook_requests_total = [l \in Results |-> 0]
    /\ http_requests_total = [l \in Paths \X Statuses |-> 0]
    /\ vcall = NoVerifyCall
    /\ qcall = NoQueryCall
    /\ mcall = NoModelCall

NextStats ==
    Stats(1) \/ StatsSendersCount(1) \/ StatsMessagesPerSender(1) \/ StatsFirstLast(1)

SpecStats == InitStats /\ [][NextStats]_vars

(***************************************************************************)
(* WebhookMessage alone: one construction of a WebhookMessage from data    *)
(***************************************************************************)

\* The parts the ts values are put together from: a date, a separator, a
\* time and a zone suffix, any of the last three possibly missing.
TsDates ==
    {Str(<<"2","0","2","5","-","0","1","-","1","5">>),
     Str(<<"0","0","0","1","-","0","1","-","0","1">>),
     Str(<<"9","9","9","9","-","1","2","-","3","1">>),
     Str(<<"2","0","2","5","-","0","2","-","3","0">>)}
TsSeparators == {Str(<<"T">>), Str(<<" ">>), <<>>}
TsTimes ==
    {Str(<<"1","0",":","0","0",":","0","0">>),
     Str(<<"1","0",":","0","0">>),
     Str(<<"2","4",":","0","0",":","0","0">>),
     Str(<<"1","0",":","0","0",":","0","0",".","1","2","3">>),
     <<>>}
TsZones ==
    {Str(<<"Z">>), <<>>, Str(<<"+","0","5",":","3","0">>),
     Str(<<"+","0","5",":","3","0","Z">>)}

TsInputs == {d \o s \o h \o z : d \in TsDates, s \in TsSeparators, h \in TsTimes, z \in TsZones}

\* The from and to values: + and digits, a bare +, no +, a letter, digits
\* that are not 0-9, the empty string.
MsisdnInputs ==
    {PhoneA, Str(<<"+","1","2">>), Str(<<"+">>), Str(<<"1">>), Str(<<"+","1","a">>),
     Str(<<"+","arabic_indic3">>), Str(<<"+","1","superscript2">>), <<>>}

\* The text values: null, a number, and strings around the length bound.
TextInputs ==
    {JNull, JNum, JStr(<<>>), JStr(TextHi), JStr(Repeat(120, MaxTextLength - 1)),
     JStr(Repeat(120, MaxTextLength)), JStr(Repeat(120, MaxTextLength + 1))}

\* The objects WebhookMessage is called with: the valid one with its ts, its
\* from and to, or its text replaced or its text left out, and the objects of
\* the request bodies.
ValidateInputs ==
    {[ValidFields EXCEPT !["ts"] = JStr(ts)] : ts \in TsInputs}
        \cup {[ValidFields EXCEPT !["from"] = JStr(f), !["to"] = JStr(g)] :
                 f \in MsisdnInputs, g \in MsisdnInputs}
        \cup {[ValidFields EXCEPT !["text"] = x] : x \in TextInputs}
        \cup {Without(ValidFields, "text")}
        \cup {BodyTable[b].value.fields : b \in {x \in Bodies : BodyTable[x].value.t = "obj"}}

InitValidate ==
    /\ secret = Some(Key1)
    /\ store = <<>>
    /\ clock = 0
    /\ reqs = [r \in Requests |-> Idle]
    /\ webhook_requests_total = [l \in Results |-> 0]
    /\ http_requests_total = [l \in Paths \X Statuses |-> 0]
    /\ vcall = NoVerifyCall
    /\ qcall = NoQueryCall
    /\ \E d \in ValidateInputs : mcall = [data |-> d, result |-> "pending", errors |-> NoErrors]

\* message = WebhookMessage(**data): a message, or ValidationError with the
\* errors of each field.
ModelCall ==
    /\ mcall.result = "pending"
    /\ mcall' = [mcall EXCEPT !.result = IF IsValid(mcall.data) THEN "message"
                                         ELSE "ValidationError",
                              !.errors = ValidationErrors(mcall.data)]
    /\ UNCHANGED <<secret, store, clock, reqs, webhook_requests_total,
                   http_requests_total, vcall, qcall>>

NextValidate == ModelCall

SpecValidate == InitValidate /\ [][NextValidate]_vars

(***************************************************************************)
(* Properties                                                              *)
(***************************************************************************)

Range(f) == {f[x] : x \in DOMAIN f}

\* The client signed the body with the secret the service is configured with.
CorrectlySigned(r) ==
    /\ reqs[r].kind = "webhook"
    /\ secret.tag = "str" /\ Len(secret.s) > 0
    /\ reqs[r].sig = HexDigest(secret.s, reqs[r].body)

IsJsonObject(b) ==
    BodyTable[b].enc = "utf8" /\ BodyTable[b].syntax = "json" /\ BodyTable[b].value.t = "obj"

ValidBody(b) == IsJsonObject(b) /\ IsValid(BodyTable[b].value.fields)

\* The bodies that are JSON objects passing validation.
ValidBodies == {b \in Bodies : ValidBody(b)}

ValidSigned(r) == CorrectlySigned(r) /\ reqs[r].body \in ValidBodies

BodyMessageId(r) == BodyTable[reqs[r].body].value.fields["message_id"].s

SameId(r1, r2) == BodyMessageId(r1) = BodyMessageId(r2)

Done(r) == reqs[r].kind = "webhook" /\ reqs[r].pc = "done"

RowsWithId(id) == Cardinality({i \in 1..Len(store) : store[i].message_id = id})

\* C1. Idempotency: of two correctly signed, valid webhook requests with the
\* same message_id, whatever their other fields, both end with status 200; the
\* one whose insert ran second is classified duplicate, the one whose insert
\* ran first of all inserts of that id is classified created, and the table
\* holds exactly one row of that id.
C1_Idempotent ==
    \A r1, r2 \in Requests :
        (/\ r1 # r2 /\ ValidSigned(r1) /\ ValidSigned(r2) /\ SameId(r1, r2)
         /\ Done(r1) /\ Done(r2)
         /\ reqs[r1].created_at < reqs[r2].created_at)
        => /\ reqs[r1].status = 200 /\ reqs[r2].status = 200
           /\ reqs[r2].result = "duplicate"
           /\ reqs[r1].result \in {"created", "duplicate"}
           /\ (\A r3 \in Requests :
                  (ValidSigned(r3) /\ SameId(r3, r1) /\ Done(r3))
                      => reqs[r1].created_at <= reqs[r3].created_at)
                 => reqs[r1].result = "created"
           /\ RowsWithId(BodyMessageId(r1)) = 1

\* Two finished requests with the same message_id and different other fields:
\* created, then duplicate, one row.
C1_Witness ==
    \E r1, r2 \in Requests :
        /\ reqs[r1].body = 4 /\ reqs[r2].body = 5
        /\ ValidSigned(r1) /\ ValidSigned(r2) /\ Done(r1) /\ Done(r2)
        /\ reqs[r1].result = "created" /\ reqs[r2].result = "duplicate"
        /\ RowsWithId(IdM1) = 1

\* C2. Concurrent inserts of one message_id: for any two correctly signed,
\* valid requests with the same message_id, with their steps interleaved in
\* any order, neither ends in an internal error, they are never both
\* classified created, exactly one is created and the other duplicate when no
\* third request carries the id, and as soon as one insert has run the table
\* holds exactly one row of the id (never none, never two).
C2_ConcurrentInserts ==
    \A r1, r2 \in Requests :
        (r1 # r2 /\ ValidSigned(r1) /\ ValidSigned(r2) /\ SameId(r1, r2))
        => /\ reqs[r1].status # 500 /\ reqs[r2].status # 500
           /\ (Done(r1) \/ Done(r2)) => RowsWithId(BodyMessageId(r1)) = 1
           /\ (Done(r1) /\ Done(r2))
                 => /\ ~(reqs[r1].result = "created" /\ reqs[r2].result = "created")
                    /\ {reqs[r1].result, reqs[r2].result} \subseteq {"created", "duplicate"}
                    /\ (\A r3 \in Requests \ {r1, r2} :
                           ~(ValidSigned(r3) /\ SameId(r3, r1)))
                          => {reqs[r1].result, reqs[r2].result} = {"created", "duplicate"}

\* The request that arrived second overtook the first: its insert ran first
\* and created the row, the first request's insert found a duplicate.
C2_Witness ==
    \E r1, r2 \in Requests :
        /\ r1 < r2 /\ ValidSigned(r1) /\ ValidSigned(r2) /\ SameId(r1, r2)
        /\ Done(r1) /\ Done(r2)
        /\ reqs[r2].created_at < reqs[r1].created_at
        /\ reqs[r2].result = "created" /\ reqs[r1].result = "duplicate"

\* C3. In every reachable state, whatever webhook, query and stats requests
\* were served and however they interleaved, the table holds at most one row
\* per message_id and no row with an empty message_id.
C3_PrimaryKey ==
    /\ \A i, j \in 1..Len(store) : store[i].message_id = store[j].message_id => i = j
    /\ \A i \in 1..Len(store) : Len(store[i].message_id) > 0

\* A second insert of a stored id was answered and the table still has its
\* one row.
C3_Witness ==
    /\ Len(store) = 1
    /\ \E r \in Requests : Done(r) /\ reqs[r].result = "duplicate"

\* C4. A webhook request whose signature does not verify ends with 401 and
\* the detail "invalid signature", whatever its body; the handler went through
\* the signature check only (no parse, no insert).
C4_BadSignatureUnauthorized ==
    \A r \in Requests :
        (Done(r) /\ ~CorrectlySigned(r))
        => /\ reqs[r].status = 401
           /\ reqs[r].detail = "invalid signature"
           /\ reqs[r].steps = <<"verify">>

\* The header is absent or the empty string.
NoHeader(h) == h.tag = "none" \/ (h.tag = "str" /\ Len(h.s) = 0)

\* The secret is None or the empty string.
NoSecret == secret.tag = "none" \/ (secret.tag = "str" /\ Len(secret.s) = 0)

\* C5. verify_signature returns False, for every body, whenever the header is
\* absent or empty or the configured secret is None or empty.
C5_NoHeaderOrSecretFails ==
    (vcall.result \notin {"none", "pending"} /\ (NoHeader(vcall.header) \/ NoSecret))
        => vcall.result = "False"

\* The secret is empty and the header is the HMAC of the body under the empty
\* key: the call returned False.
C5_Witness ==
    /\ secret = Some(<<>>)
    /\ vcall.header = HexDigest(<<>>, vcall.body)
    /\ vcall.result = "False"

\* C6. Auth correctness: with a non-empty secret S, verify_signature returns a
\* boolean for every header, True when the header is the hex HMAC-SHA256 of
\* the body under S and False for every other header.
C6_AuthCorrect ==
    (vcall.result \notin {"none", "pending"} /\ ~NoSecret)
        => /\ vcall.result \in {"True", "False"}
           /\ vcall.result = "True" <=> vcall.header = HexDigest(secret.s, vcall.body)

\* + followed by one or more of the digits 0-9.
PlusDigits(s) == Len(s) >= 2 /\ s[1] = 43 /\ \A i \in 2..Len(s) : s[i] \in 48..57

\* A str ending in Z that, with Z replaced by +00:00, is an ISO-8601 date-time.
ZTimestamp(s) == Len(s) > 0 /\ s[Len(s)] = 90 /\ FromIsoformat(ReplaceZ(s))

\* The JSON object d (its fields strings where present) breaks a constraint
\* of the message contract.
ViolatesContract(d) ==
    \/ \E k \in {"message_id", "from", "to", "ts"} : k \notin DOMAIN d
    \/ Len(d["message_id"].s) = 0
    \/ ~PlusDigits(d["from"].s)
    \/ ~PlusDigits(d["to"].s)
    \/ ~ZTimestamp(d["ts"].s)
    \/ ("text" \in DOMAIN d /\ d["text"].t = "str" /\ Len(d["text"].s) > 4096)

\* C7. A correctly signed request whose JSON object breaks a field constraint
\* ends with 422 and a detail, and its handler never called insert_message.
C7_FieldViolationRejected ==
    \A r \in Requests :
        (/\ Done(r) /\ CorrectlySigned(r) /\ IsJsonObject(reqs[r].body)
         /\ ViolatesContract(BodyTable[reqs[r].body].value.fields))
        => /\ reqs[r].status = 422
           /\ reqs[r].detail # ""
           /\ "insert" \notin Range(reqs[r].steps)

\* C8. A correctly signed request whose body is not UTF-8, not JSON or not a
\* JSON object ends with 422, not with an internal error, and its handler
\* never called insert_message.
C8_UnparseableBodyRejected ==
    \A r \in Requests :
        (Done(r) /\ CorrectlySigned(r) /\ ~IsJsonObject(reqs[r].body))
        => /\ reqs[r].status = 422
           /\ "insert" \notin Range(reqs[r].steps)

\* C9. Every correctly signed, valid webhook request is answered with status
\* 200 and the body {"status": "ok"}, the same whether insert_message
\* classified it created or duplicate.
C9_SameResponse ==
    /\ \A r \in Requests :
          (Done(r) /\ ValidSigned(r))
          => /\ reqs[r].result \in {"created", "duplicate"}
             /\ reqs[r].status = 200 /\ reqs[r].detail = "ok"
    /\ \A r1, r2 \in Requests :
          (/\ Done(r1) /\ Done(r2)
           /\ reqs[r1].result = "created" /\ reqs[r2].result = "duplicate")
          => /\ reqs[r1].status = reqs[r2].status
             /\ reqs[r1].detail = reqs[r2].detail

\* The same body was submitted twice with its signature: the first was
\* classified created, the second duplicate, and both got 200 ok.
C9_Witness ==
    \E r1, r2 \in Requests :
        /\ r1 # r2 /\ reqs[r1].body = 4 /\ reqs[r2].body = 4
        /\ reqs[r1].sig = reqs[r2].sig
        /\ Done(r1) /\ Done(r2)
        /\ reqs[r1].result = "created" /\ reqs[r2].result = "duplicate"
        /\ reqs[r1].status = 200 /\ reqs[r2].status = 200

\* The tables holding the rows of `rows` in every order.
Reorderings(rows) ==
    {[i \in 1..Len(rows) |-> rows[p[i]]] :
        p \in {f \in [1..Len(rows) -> 1..Len(rows)] :
                  \A i, j \in 1..Len(rows) : f[i] = f[j] => i = j}}

\* C10. Ordering: an unfiltered get_messages with offset 0 and a limit of at
\* least the number of rows returns every stored message exactly once, in
\* ascending order of ts and, for equal ts, of message_id; a table holding the
\* same rows in another order gives the same sequence.
C10_Ordering ==
    (qcall.pc = "done" /\ qcall.offset = 0 /\ qcall.limit >= Len(store)
        /\ ~Truthy(qcall.from_msisdn) /\ ~Truthy(qcall.since) /\ ~Truthy(qcall.q))
    => /\ Len(qcall.messages) = Len(store)
       /\ qcall.total = Len(store)
       /\ \A i \in 1..Len(store) :
             Cardinality({j \in 1..Len(qcall.messages) :
                             qcall.messages[j] = Projection(store[i])}) = 1
       /\ \A i, j \in 1..Len(qcall.messages) :
             i < j => \/ StrLess(qcall.messages[i].ts, qcall.messages[j].ts)
                      \/ /\ qcall.messages[i].ts = qcall.messages[j].ts
                         /\ StrLess(qcall.messages[i].message_id,
                                    qcall.messages[j].message_id)
       /\ \A other \in Reorderings(store) :
             GetMessages(other, qcall.limit, qcall.offset, qcall.from_msisdn,
                         qcall.since, qcall.q).messages = qcall.messages

\* Three rows, two of them with the same ts and inserted in descending order
\* of message_id, and a row of an earlier ts inserted last: the call returned
\* them in (ts, message_id) order.
C10_Witness ==
    /\ qcall.pc = "done" /\ Len(store) = 3 /\ Len(qcall.messages) = 3
    /\ store[1].ts = store[2].ts
    /\ StrLess(store[2].message_id, store[1].message_id)
    /\ StrLess(store[3].ts, store[1].ts)
    /\ qcall.messages[1].message_id = store[3].message_id
    /\ qcall.messages[2].message_id = store[2].message_id
    /\ qcall.messages[3].message_id = store[1].message_id

Max(a, b) == IF a > b THEN a ELSE b

\* The rows of the table that the filters of the call select.
MatchingRows == {i \in 1..Len(store) : Matches(store[i], qcall.from_msisdn, qcall.since, qcall.q)}

\* C11. Pagination: for any filter, limit and offset, get_messages returns as
\* total the number of rows matching the filter, whatever the limit and
\* offset, and as page the matching rows at positions offset+1 ..
\* min(offset+limit, total) of the (ts, message_id) order: the k-th message of
\* the page is the matching row with exactly offset+k-1 matching rows before
\* it, and the page has min(limit, max(0, total - offset)) messages.
C11_Pagination ==
    qcall.pc = "done"
    => /\ qcall.total = Cardinality(MatchingRows)
       /\ Len(qcall.messages) = Min(qcall.limit, Max(0, qcall.total - qcall.offset))
       /\ \A k \in 1..Len(qcall.messages) :
             \E i \in MatchingRows :
                /\ qcall.messages[k] = Projection(store[i])
                /\ Cardinality({j \in MatchingRows : RowLess(store[j], store[i])})
                      = qcall.offset + k - 1

\* A call filtered by sender with offset 1 and limit 1 on a table with two
\* matching rows, the later one inserted first, and a row that does not
\* match: total 2, and a page of the second matching row only.
C11_Witness ==
    /\ qcall.pc = "done" /\ qcall.limit = 1 /\ qcall.offset = 1
    /\ Truthy(qcall.from_msisdn)
    /\ Len(store) = 3 /\ store[1].message_id = IdM1 /\ store[3].message_id = IdM3
    /\ qcall.total = 2 /\ Len(qcall.messages) = 1
    /\ qcall.messages[1].message_id = IdM1

\* The message_ids get_messages returns on the table for the given filters,
\* with a window that holds every row.
MatchedIds(from_msisdn, since, q) ==
    LET got == GetMessages(store, Len(store) + 1, 0, from_msisdn, since, q)
    IN {got.messages[k].message_id : k \in 1..Len(got.messages)}

\* s contains q as a literal substring, character for character.
Contains(s, q) == \E i \in 0..(Len(s) - Len(q)) : SubSeq(s, i + 1, i + Len(q)) = q

C13_LiteralSubstring ==
    (qcall.pc = "done" /\ Truthy(qcall.q))
    => qcall.total =
          Cardinality({i \in 1..Len(store) :
                          /\ Matches(store[i], qcall.from_msisdn, qcall.since, None)
                          /\ store[i].text.tag = "str"
                          /\ Contains(store[i].text.s, qcall.q.s)})

\* The limit or the offset the client sent is outside its range.
OutOfRange(g) ==
    \/ (g.limit.given /\ (g.limit.value < 1 \/ g.limit.value > 100))
    \/ (g.offset.given /\ g.offset.value < 0)

\* C14. A /messages request with limit outside [1,100] or offset < 0 ends with
\* a 422 and get_messages is never called for it (no clamped value is used);
\* every other request ends with 200, get_messages is called with the limit
\* and offset sent, or 50 and 0 where omitted, and the response carries the
\* limit and offset of that call and a page of at most limit messages.
C14_LimitOffsetChecked ==
    \A r \in Requests :
        (reqs[r].kind = "messages" /\ reqs[r].pc = "done")
        => IF OutOfRange(reqs[r].given)
           THEN /\ reqs[r].status = 422
                /\ reqs[r].steps = <<>>
                /\ reqs[r].applied = NoWindow
                /\ reqs[r].data = <<>>
           ELSE /\ reqs[r].status = 200
                /\ reqs[r].steps = <<"get_messages">>
                /\ reqs[r].applied.limit =
                      (IF reqs[r].given.limit.given THEN reqs[r].given.limit.value ELSE 50)
                /\ reqs[r].applied.offset =
                      (IF reqs[r].given.offset.given THEN reqs[r].given.offset.value ELSE 0)
                /\ reqs[r].limit = reqs[r].applied.limit
                /\ reqs[r].offset = reqs[r].applied.offset
                /\ Len(reqs[r].data) <= reqs[r].applied.limit

\* A request with limit=101 was rejected, and a request without parameters
\* was answered with limit 50 and offset 0.
C14_Witness ==
    /\ \E r1, r2 \in Requests :
          /\ reqs[r1].kind = "messages" /\ reqs[r1].given.limit = Given(101)
          /\ reqs[r1].status = 422
          /\ reqs[r2].kind = "messages" /\ reqs[r2].given.limit = Absent
          /\ reqs[r2].given.offset = Absent
          /\ reqs[r2].status = 200 /\ reqs[r2].limit = 50 /\ reqs[r2].offset = 0

\* A /stats request was answered.
StatsDone(r) == reqs[r].kind = "stats" /\ reqs[r].pc = "done"

\* The distinct senders of the stored rows, and the stored rows of a sender.
StoredSenders == {store[i].from_msisdn : i \in 1..Len(store)}
StoredFrom(sender) == {i \in 1..Len(store) : store[i].from_msisdn = sender}

\* The sum of the counts of a messages_per_sender list.
RECURSIVE SumCounts(_)
SumCounts(mps) == IF Len(mps) = 0 THEN 0 ELSE mps[1].count + SumCounts(Tail(mps))

\* C15. Stats consistency: whenever the table holds at most 10 distinct
\* senders, the counts of messages_per_sender sum to total_messages, and the
\* list has one entry per distinct sender, senders_count entries in all.
C15_StatsConsistent ==
    \A r \in Requests :
        (StatsDone(r) /\ Cardinality(StoredSenders) <= 10)
        => /\ SumCounts(reqs[r].stats.messages_per_sender) = reqs[r].stats.total_messages
           /\ Len(reqs[r].stats.messages_per_sender) = reqs[r].stats.senders_count
           /\ {reqs[r].stats.messages_per_sender[k].from :
                  k \in 1..Len(reqs[r].stats.messages_per_sender)} = StoredSenders

\* Ten senders, one of them with two messages: the counts sum to the eleven
\* messages.
C15_Witness ==
    /\ StatsDone(1)
    /\ Cardinality(StoredSenders) = 10 /\ Len(store) = 11
    /\ reqs[1].stats.total_messages = 11
    /\ reqs[1].stats.messages_per_sender[1].count = 2

\* C16. messages_per_sender has min(10, number of distinct senders) entries of
\* pairwise distinct senders, in non-increasing order of count, each count the
\* number of stored rows of its sender, and no sender left out has more
\* messages than a listed one; eleven senders of one message each give ten
\* entries that sum to 10.
C16_TopTenSenders ==
    \A r \in Requests :
        StatsDone(r)
        => LET mps == reqs[r].stats.messages_per_sender IN
           /\ Len(mps) = Min(10, Cardinality(StoredSenders))
           /\ \A i, j \in 1..Len(mps) : mps[i].from = mps[j].from => i = j
           /\ \A i, j \in 1..Len(mps) : i < j => mps[i].count >= mps[j].count
           /\ \A i \in 1..Len(mps) :
                 /\ mps[i].from \in StoredSenders
                 /\ mps[i].count = Cardinality(StoredFrom(mps[i].from))
           /\ \A s \in StoredSenders :
                 (\A i \in 1..Len(mps) : mps[i].from # s)
                    => \A i \in 1..Len(mps) : Cardinality(StoredFrom(s)) <= mps[i].count
           /\ (Cardinality(StoredSenders) = 11 /\ Len(store) = 11)
                 => (Len(mps) = 10 /\ SumCounts(mps) = 10)

\* Eleven senders, one with two messages and the others with one: the list has
\* ten entries, the sender of two first, and one sender of one is left out.
C16_Witness ==
    /\ StatsDone(1)
    /\ Cardinality(StoredSenders) = 11 /\ Len(store) = 12
    /\ Len(reqs[1].stats.messages_per_sender) = 10
    /\ reqs[1].stats.messages_per_sender[1].count = 2
    /\ reqs[1].stats.messages_per_sender[10].count = 1
    /\ SumCounts(reqs[1].stats.messages_per_sender) = 11

\* C17. On an empty table stats returns total_messages 0, senders_count 0, an
\* empty messages_per_sender and null first and last timestamps; on a table
\* with rows, total_messages is the number of rows, senders_count the number
\* of distinct senders, and first_message_ts / last_message_ts are stored ts
\* values that no stored ts is below / above, so first <= last.
C17_StatsValues ==
    \A r \in Requests :
        StatsDone(r)
        => LET s == reqs[r].stats IN
           IF Len(store) = 0
           THEN /\ s.total_messages = 0 /\ s.senders_count = 0
                /\ s.messages_per_sender = <<>>
                /\ s.first_message_ts = None /\ s.last_message_ts = None
           ELSE /\ s.total_messages = Len(store)
                /\ s.senders_count = Cardinality(StoredSenders)
                /\ s.first_message_ts.tag = "str" /\ s.last_message_ts.tag = "str"
                /\ \E i \in 1..Len(store) : store[i].ts = s.first_message_ts.s
                /\ \E i \in 1..Len(store) : store[i].ts = s.last_message_ts.s
                /\ \A i \in 1..Len(store) :
                      /\ ~StrLess(store[i].ts, s.first_message_ts.s)
                      /\ ~StrLess(s.last_message_ts.s, store[i].ts)
                /\ ~StrLess(s.last_message_ts.s, s.first_message_ts.s)

\* The first row inserted has the later of two timestamps: stats returned the
\* earlier one as first_message_ts and the later one as last_message_ts.
C17_Witness ==
    /\ StatsDone(1)
    /\ Len(store) >= 2 /\ store[1].ts = Ts1000 /\ store[2].ts = Ts0900
    /\ reqs[1].stats.first_message_ts = Some(Ts0900)
    /\ reqs[1].stats.last_message_ts = Some(Ts1000)

\* The call of WebhookMessage returned or raised.
Validated == mcall.result \in {"message", "ValidationError"}

\* The string value of a field of the validated object, "" unless it is one.
FieldStr(k) ==
    IF k \in DOMAIN mcall.data /\ mcall.data[k].t = "str" THEN mcall.data[k].s ELSE <<>>
IsStrField(k) == k \in DOMAIN mcall.data /\ mcall.data[k].t = "str"

\* ISO-8601 calendar date YYYY-MM-DD.
IsoDate(d) ==
    /\ Len(d) = 10
    /\ \A i \in {1, 2, 3, 4, 6, 7, 9, 10} : d[i] \in 48..57
    /\ d[5] = 45 /\ d[8] = 45
    /\ Num(d, 6, 7) \in 1..12
    /\ Num(d, 9, 10) \in 1..DaysInMonth(Num(d, 1, 4), Num(d, 6, 7))

\* ISO-8601 time of day hh:mm, hh:mm:ss or hh:mm:ss.f with any number of
\* fraction digits (24:00:00 and a leap second allowed).
IsoTime(h) ==
    /\ Len(h) >= 5
    /\ h[1] \in 48..57 /\ h[2] \in 48..57 /\ h[3] = 58 /\ h[4] \in 48..57 /\ h[5] \in 48..57
    /\ Num(h, 1, 2) <= 24 /\ Num(h, 4, 5) <= 59
    /\ Len(h) > 5 => /\ Len(h) >= 8
                     /\ h[6] = 58 /\ h[7] \in 48..57 /\ h[8] \in 48..57
                     /\ Num(h, 7, 8) <= 60
    /\ Len(h) > 8 => /\ Len(h) >= 10 /\ h[9] = 46
                     /\ \A i \in 10..Len(h) : h[i] \in 48..57

\* A numeric UTC offset +hh:mm or -hh:mm.
IsoOffset(z) ==
    /\ Len(z) = 6 /\ z[1] \in {43, 45} /\ z[4] = 58
    /\ \A i \in {2, 3, 5, 6} : z[i] \in 48..57
    /\ Num(z, 2, 3) <= 23 /\ Num(z, 5, 6) <= 59

\* An ISO-8601 date-time with a numeric offset: date, T (a space is let
\* pass, as RFC 3339 does), time, offset.
IsoDateTime(s) ==
    /\ Len(s) >= 22
    /\ IsoDate(SubSeq(s, 1, 10))
    /\ s[11] \in {84, 32}
    /\ IsoTime(SubSeq(s, 12, Len(s) - 6))
    /\ IsoOffset(SubSeq(s, Len(s) - 5, Len(s)))

\* v, which ends with Z, with that Z replaced by the zero offset.
ZAsOffset(v) == SubSeq(v, 1, Len(v) - 1) \o <<43, 48, 48, 58, 48, 48>>

\* v ends with a numeric offset, or with no zone at all (a digit last).
OffsetSuffix(v) == Len(v) >= 6 /\ IsoOffset(SubSeq(v, Len(v) - 5, Len(v)))
NoZoneSuffix(v) == Len(v) > 0 /\ v[Len(v)] \in 48..57

\* YYYY-MM-DDThh:mm:ssZ of a calendar date of any year and a time of day.
ZInstant(v) ==
    /\ Len(v) = 20 /\ v[20] = 90 /\ v[11] = 84
    /\ IsoDate(SubSeq(v, 1, 10))
    /\ IsoTime(SubSeq(v, 12, 19)) /\ Num(v, 12, 13) <= 23 /\ Num(v, 18, 19) <= 59
    /\ Num(v, 1, 4) >= 1

\* C18. The ts validator accepts a string only if it ends with Z and, with
\* that Z replaced by +00:00, is an ISO-8601 date-time; it rejects every ts
\* that ends with a numeric offset or has no zone suffix; and it accepts the
\* Z-suffixed instants of any year, however old or far in the future.
C18_TimestampValidator ==
    (Validated /\ IsStrField("ts"))
    => /\ mcall.errors.ts = {}
             => /\ Len(FieldStr("ts")) > 0 /\ FieldStr("ts")[Len(FieldStr("ts"))] = 90
                /\ IsoDateTime(ZAsOffset(FieldStr("ts")))
       /\ (OffsetSuffix(FieldStr("ts")) \/ NoZoneSuffix(FieldStr("ts")))
             => mcall.errors.ts # {}
       /\ ZInstant(FieldStr("ts")) => mcall.errors.ts = {}

\* C19. The text bound is inclusive at 4096: a text of n characters passes for
\* every n <= 4096, as do a null and an absent text, and fails for every
\* n >= 4097; a message whose other fields are valid is accepted in the first
\* case and rejected in the second.
C19_TextBoundInclusive ==
    (Validated /\ ("text" \in DOMAIN mcall.data => mcall.data["text"].t \in {"str", "null"}))
    => LET within == \/ "text" \notin DOMAIN mcall.data
                     \/ mcall.data["text"].t = "null"
                     \/ Len(mcall.data["text"].s) <= 4096
           others == \A k \in {"message_id", "from", "to", "ts"} : mcall.errors[k] = {}
       IN /\ within <=> mcall.errors.text = {}
          /\ others => (within <=> mcall.result = "message")

\* A message with a text of exactly 4096 characters was accepted.
C19_Witness ==
    /\ mcall.result = "message"
    /\ IsStrField("text") /\ Len(FieldStr("text")) = 4096

\* C20. The from and to validators accept a string if and only if it is +
\* followed by one or more characters that are all ASCII digits 0-9.
C20_MsisdnAsciiDigits ==
    Validated
    => /\ IsStrField("from") => (mcall.errors.from = {} <=> PlusDigits(FieldStr("from")))
       /\ IsStrField("to") => (mcall.errors.to = {} <=> PlusDigits(FieldStr("to")))

\* C21. Once a row is stored, every later step of every request (a duplicate
\* submission with other field values, a rejected request, a query, a stats
\* call) leaves all of its fields, created_at included, as they are, and no
\* step removes a row: the table only grows at its end.
C21_RowsImmutable ==
    [][/\ Len(store') >= Len(store)
       /\ \A i \in 1..Len(store) : store'[i] = store[i]]_vars

\* The row of m1 was created by one request, and a later request for m1 with
\* another sender, recipient, ts and text was answered as a duplicate: the row
\* still has the fields and the created_at of the first.
C21_Witness ==
    \E r1, r2 \in Requests :
        /\ reqs[r1].body = 4 /\ reqs[r1].result = "created"
        /\ reqs[r2].body = 5 /\ reqs[r2].result = "duplicate" /\ reqs[r2].pc = "done"
        /\ Len(store) = 1
        /\ store[1] = Row(MessageOf(BodyTable[4].value.fields), reqs[r1].created_at)
        /\ reqs[r1].created_at < reqs[r2].created_at

\* The texts exceptions render themselves as.
ExceptionTexts == {"str(ValidationError)", "str(TypeError)", "str(Exception)"}

\* C22. No error response of the webhook carries raw exception text: a 401
\* has the detail "invalid signature" and nothing else, whether the header
\* was missing or wrong or the secret unset; the detail of a 422 is not the
\* text of the exception that was caught; an internal failure carries the
\* framework's fixed text.
C22_NoExceptionText ==
    \A r \in Requests :
        (Done(r) /\ reqs[r].status >= 400)
        => /\ reqs[r].detail \notin ExceptionTexts
           /\ reqs[r].status = 401 => reqs[r].detail = "invalid signature"
           /\ reqs[r].status = 500 => reqs[r].detail = "Internal Server Error"

\* The webhook requests that have been answered.
CompletedWebhooks == {r \in Requests : Done(r)}

\* C23. One outcome event per webhook request: webhook_requests_total is
\* incremented once per request with the label of its terminal outcome, so
\* the counter summed over its labels equals the number of completed webhook
\* requests, each label counts the requests that ended with it, and the
\* created count equals the number of stored rows.
C23_OneOutcomeEvent ==
    /\ webhook_requests_total["invalid_signature"] + webhook_requests_total["validation_error"]
         + webhook_requests_total["created"] + webhook_requests_total["duplicate"]
       = Cardinality(CompletedWebhooks)
    /\ \A l \in Results :
          webhook_requests_total[l]
          = Cardinality({r \in CompletedWebhooks : reqs[r].result = l})
    /\ webhook_requests_total["created"] = Len(store)

\* The from, to, ts and text a request's body carries, as a row holds them.
RequestFields(r) ==
    LET d == BodyTable[reqs[r].body].value.fields IN
    [from_msisdn |-> d["from"].s, to_msisdn |-> d["to"].s, ts |-> d["ts"].s,
     text |-> IF "text" \in DOMAIN d /\ d["text"].t = "str" THEN Some(d["text"].s) ELSE None]

RowFields(row) ==
    [from_msisdn |-> row.from_msisdn, to_msisdn |-> row.to_msisdn, ts |-> row.ts,
     text |-> row.text]

\* The insert of request r runs in this step.
Inserts(r) == ValidSigned(r) /\ reqs[r].pc = "validated" /\ reqs'[r].pc = "done"

\* C24. Insert if absent: when the insert of a correctly signed, valid
\* request with message_id m runs, the outcome is created if and only if no
\* row with id m existed, and then the table afterwards is the table before
\* plus one row for m with exactly the request's from, to, ts and text; the
\* outcome is duplicate if and only if a row with id m existed, the table is
\* left as it was, and a row with id m is in the table afterwards.
C24_InsertIfAbsent ==
    [][\A r \in Requests :
          Inserts(r)
          => LET m == BodyMessageId(r) IN
             /\ reqs'[r].result \in {"created", "duplicate"}
             /\ reqs'[r].result = "created" <=> ~HasRow(store, m)
             /\ reqs'[r].result = "duplicate" <=> HasRow(store, m)
             /\ reqs'[r].result = "created"
                => /\ Len(store') = Len(store) + 1
                   /\ SubSeq(store', 1, Len(store)) = store
                   /\ store'[Len(store')].message_id = m
                   /\ RowFields(store'[Len(store')]) = RequestFields(r)
             /\ reqs'[r].result = "duplicate"
                => /\ store' = store
                   /\ \E i \in 1..Len(store') : store'[i].message_id = m]_vars

\* A message without text was created and then sent again: the second
\* request is a duplicate and the table holds the one row, its text NULL.
C24_Witness ==
    \E r1, r2 \in Requests :
        /\ ValidSigned(r1) /\ ValidSigned(r2)
        /\ reqs[r1].body = 6 /\ reqs[r1].result = "created" /\ reqs[r1].pc = "done"
        /\ reqs[r2].body = 6 /\ reqs[r2].result = "duplicate" /\ reqs[r2].pc = "done"
        /\ Len(store) = 1
        /\ store[1].message_id = IdM2 /\ store[1].text = None
        /\ RowFields(store[1]) = RequestFields(r1)

(***************************************************************************)
(* get_messages on timestamps of different precision: one call, with or    *)
(* without since, on a table of two messages whose ts the validator        *)
(* accepted                                                                *)
(***************************************************************************)

\* Timestamps in the forms of ISO-8601 that validate_timestamp accepts: to
\* the second, to the millisecond, to the minute.
ChronoTs ==
    {v \in {Ts1000,
            Str(<<"2","0","2","5","-","0","1","-","1","5","T","1","0",":","0","0",":","0","0",".","1","2","3","Z">>),
            Str(<<"2","0","2","5","-","0","1","-","1","5","T","1","0",":","0","0","Z">>),
            Str(<<"2","0","2","5","-","0","1","-","1","5","T","1","0",":","0","0",":","3","0","Z">>),
            Str(<<"2","0","2","5","-","0","1","-","1","6","T","0","9",":","0","0",":","0","0","Z">>)} :
        ValidateTimestamp(v) = {}}

ChronoMessage(id, ts) ==
    [message_id |-> id, from_ |-> PhoneA, to |-> PhoneB, ts |-> ts, text |-> Some(TextHi)]

InitChrono ==
    /\ secret = Some(Key1)
    /\ \E t1, t2 \in ChronoTs, first \in {IdM1, IdM2} :
          /\ store = BuildStore(<<ChronoMessage(first, t1),
                                  ChronoMessage(IF first = IdM1 THEN IdM2 ELSE IdM1, t2)>>)
          /\ clock = 3
    /\ reqs = [r \in Requests |-> Idle]
    /\ webhook_requests_total = [l \in Results |-> 0]
    /\ http_requests_total = [l \in Paths \X Statuses |-> 0]
    /\ vcall = NoVerifyCall
    /\ \E s \in {None} \cup {Some(v) : v \in ChronoTs} :
          qcall = [pc |-> "pending", limit |-> DefaultLimit, offset |-> DefaultOffset,
                   from_msisdn |-> None, since |-> s, q |-> None,
                   messages |-> <<>>, total |-> 0]
    /\ mcall = NoModelCall

NextChrono == GetMessagesCall

SpecChrono == InitChrono /\ [][NextChrono]_vars

\* The calendar day and the millisecond of the day that a timestamp
\* YYYY-MM-DDThh:mm[:ss[.fff]]Z denotes.
DayOf(v) == Num(v, 1, 4) * 10000 + Num(v, 6, 7) * 100 + Num(v, 9, 10)
MsOfDay(v) ==
    LET t == SubSeq(v, 12, Len(v) - 1) IN
    Num(t, 1, 2) * 3600000 + Num(t, 4, 5) * 60000
      + (IF Len(t) >= 8 THEN Num(t, 7, 8) * 1000 ELSE 0)
      + (IF Len(t) = 12 THEN Num(t, 10, 12) ELSE 0)

\* The instant of a is the instant of b or an earlier one.
NotLater(a, b) == DayOf(a) < DayOf(b) \/ (DayOf(a) = DayOf(b) /\ MsOfDay(a) <= MsOfDay(b))

\* C25. The string order of accepted timestamps is their chronological
\* order: the messages of a page are in the order of their instants, a call
\* with since returns exactly the messages at or after the instant of since,
\* and the MIN and MAX of ts are the timestamps of an earliest and a latest
\* message.
C25_ChronologicalOrder ==
    qcall.pc = "done"
    => /\ \A i, j \in 1..Len(qcall.messages) :
             i < j => NotLater(qcall.messages[i].ts, qcall.messages[j].ts)
       /\ Truthy(qcall.since)
             => {qcall.messages[k].message_id : k \in 1..Len(qcall.messages)}
                   = {store[i].message_id :
                         i \in {j \in 1..Len(store) : NotLater(qcall.since.s, store[j].ts)}}
       /\ \A i \in 1..Len(store) :
             /\ NotLater(MinTs(store).s, store[i].ts)
             /\ NotLater(store[i].ts, MaxTs(store).s)

\* The pages get_messages returns on the table for the filters of the call
\* and the limit L at the offsets 0, L, 2L, ... up to page number n, one
\* after the other.
RECURSIVE PagesUpTo(_, _)
PagesUpTo(L, n) ==
    (IF n = 0 THEN <<>> ELSE PagesUpTo(L, n - 1))
       \o GetMessages(store, L, n * L, qcall.from_msisdn, qcall.since, qcall.q).messages

\* All the pages of the call's filters and limit, to past the end of the table.
AllPages == PagesUpTo(qcall.limit, Len(store) \div qcall.limit + 1)

\* Message a is before message b in the (ts, message_id) order.
MessageLess(a, b) ==
    StrLess(a.ts, b.ts) \/ (a.ts = b.ts /\ StrLess(a.message_id, b.message_id))

\* C26. Paging through an unchanged table: for any filter and limit L, the
\* pages at offsets 0, L, 2L, ... put one after the other hold every matching
\* message exactly once, in strictly ascending (ts, message_id) order, total
\* messages in all; and the page of a call at offset k * L is the k-th of
\* them.
C26_PagesPartition ==
    qcall.pc = "done"
    => LET pages == AllPages
           matching == MatchingRows IN
       /\ Len(pages) = qcall.total
       /\ \A i \in matching :
             Cardinality({k \in 1..Len(pages) : pages[k] = Projection(store[i])}) = 1
       /\ \A k \in 1..Len(pages) : \E i \in matching : pages[k] = Projection(store[i])
       /\ \A j, k \in 1..Len(pages) : j < k => MessageLess(pages[j], pages[k])
       /\ qcall.offset % qcall.limit = 0
             => qcall.messages
                   = SubSeq(pages, qcall.offset + 1, Min(qcall.offset + qcall.limit, Len(pages)))

\* A call for the second page of two on a table of three rows that all
\* match: the first page holds two messages, the page of the call the third.
C26_Witness ==
    /\ qcall.pc = "done" /\ qcall.limit = 2 /\ qcall.offset = 2
    /\ Len(store) = 3 /\ qcall.total = 3
    /\ store[1].ts = Ts1000 /\ store[3].ts = Ts0900
    /\ LET pages == AllPages IN
       /\ Len(pages) = 3
       /\ qcall.messages = <<pages[3]>>
       /\ pages[1].message_id = store[3].message_id

\* The parameter was sent as the empty string.
IsEmptyStr(v) == v.tag = "str" /\ Len(v.s) = 0

\* The parameter left out of the query when it was sent as the empty string.
Omitted(v) == IF IsEmptyStr(v) THEN None ELSE v

\* C29. An empty filter value adds no condition: a call with from, since or q
\* the empty string returns the total and the page of the call that leaves
\* that parameter out, and with no other filter it returns every row of the
\* table, also those whose text is NULL.
C29_EmptyFilterOmitted ==
    (qcall.pc = "done" /\ (IsEmptyStr(qcall.from_msisdn) \/ IsEmptyStr(qcall.since)
                              \/ IsEmptyStr(qcall.q)))
    => LET omitted == GetMessages(store, qcall.limit, qcall.offset, Omitted(qcall.from_msisdn),
                                  Omitted(qcall.since), Omitted(qcall.q)) IN
       /\ qcall.total = omitted.total
       /\ qcall.messages = omitted.messages
       /\ (Omitted(qcall.from_msisdn) = None /\ Omitted(qcall.since) = None
              /\ Omitted(qcall.q) = None)
             => /\ qcall.total = Len(store)
                /\ Len(qcall.messages) = Min(qcall.limit, Max(0, Len(store) - qcall.offset))

\* A call with from, since and q all empty strings on a table of three rows,
\* one of them without text: all three rows are returned.
C29_Witness ==
    /\ qcall.pc = "done"
    /\ IsEmptyStr(qcall.from_msisdn) /\ IsEmptyStr(qcall.since) /\ IsEmptyStr(qcall.q)
    /\ qcall.offset = 0
    /\ Len(store) = 3 /\ \E i \in 1..3 : store[i].text = None
    /\ qcall.total = 3 /\ Len(qcall.messages) = 3

\* C30. Each completed webhook request adds exactly one to http_requests_total
\* for the path /webhook and the status of its response: the counter of a
\* status is the number of completed webhook requests answered with it, and
\* the counter summed over the statuses is the number of webhook requests
\* served.
C30_HttpCountedOnce ==
    /\ \A s \in Statuses :
          http_requests_total[<<"/webhook", s>>]
          = Cardinality({r \in CompletedWebhooks : reqs[r].status = s})
    /\ http_requests_total[<<"/webhook", 200>>] + http_requests_total[<<"/webhook", 401>>]
         + http_requests_total[<<"/webhook", 422>>]
       = Cardinality(CompletedWebhooks)

\* A /messages request was answered with a page.
MessagesDone(r) == reqs[r].kind = "messages" /\ reqs[r].pc = "done" /\ reqs[r].status = 200

\* C27. A get_messages call that runs while webhook requests insert returns
\* a total and a page of one state of the table: with offset 0 and a limit
\* of at least the total returned, the page holds exactly total messages.
C27_TotalAndPageOneState ==
    \A r \in Requests :
        (MessagesDone(r) /\ reqs[r].offset = 0 /\ reqs[r].limit >= reqs[r].total)
        => Len(reqs[r].data) = reqs[r].total

\* C28. A get_stats call that runs while webhook requests insert returns the
\* values of one state of the table: with at most 10 distinct senders stored,
\* the counts of messages_per_sender sum to total_messages and the list has
\* senders_count entries.
C28_StatsOneState ==
    \A r \in Requests :
        (StatsDone(r) /\ Cardinality(StoredSenders) <= 10)
        => /\ SumCounts(reqs[r].stats.messages_per_sender) = reqs[r].stats.total_messages
           /\ Len(reqs[r].stats.messages_per_sender) = reqs[r].stats.senders_count

====
